---------------------------- MODULE Spec2Model ----------------------------
(***************************************************************************)
(* Model of the video-to-contact-sheet pipeline of src/lib/contact-sheet.ts *)
(* (calculateSamplingInterval, extractFrame, createContactSheet,           *)
(* extractContactSheets), of the coordinator that calls it,                *)
(* src/components/processing-view.tsx, and of the recorder that produces   *)
(* the video, src/components/video-recorder.tsx.                           *)
(*                                                                         *)
(* Times are exact non-negative rationals [n |-> numerator, d |->          *)
(* denominator] in lowest terms; the JavaScript source computes them as    *)
(* IEEE doubles, the model in exact arithmetic.                            *)
(*                                                                         *)
(* JavaScript runs every handler to its next await, so each action is one  *)
(* event delivered to the video element together with the whole            *)
(* synchronous continuation it triggers, up to the next pending seek or    *)
(* the end of the run.                                                     *)
(***************************************************************************)
EXTENDS Integers, Sequences, FiniteSets

VARIABLES
    duration,       \* video.duration, known once metadata has loaded (input)
    decode,         \* which seeks the media layer answers with 'error' (input)
    encodeFailsAt,  \* index of the sheet whose toDataURL throws, or NoThrow (input)
    run,            \* state of one extractContactSheets call
    plan,           \* arguments and results of calculateSamplingInterval (PlanSpec)
    view,           \* the record page and its ProcessingView (ViewSpec)
    twin,           \* a second extractContactSheets call on the same video (TwinSpec)
    stallAt,        \* number of the seek the media layer never answers, or NoStall (input)
    recorder        \* the VideoRecorder component (RecorderSpec)

vars == <<duration, decode, encodeFailsAt, run, plan, view, twin, stallAt, recorder>>

---------------------------------------------------------------------------
(* Program constants, contact-sheet.ts lines 3-6 *)

MAX_SHEETS == 50

FRAMES_PER_SHEET == 9

GRID_SIZE == 3

\* the default of VideoRecorder's maxDuration, in seconds, video-recorder.tsx line 48
maxDuration == 600

---------------------------------------------------------------------------
(* Bounds of the model *)

\* short durations are n/4 seconds, n = 1..MaxShortQuarters
MaxShortQuarters == 44

\* durations around the 225 s threshold are 224 + n/10 seconds, n = 0..MaxNearTenths
MaxNearTenths == 30

\* recordings of 25 n seconds, n = 1..MaxPlanSteps, are planned too
MaxPlanSteps == 24

\* a failure pattern fails the seeks whose number is rem modulo mod, mod <= MaxFailMod
MaxFailMod == 3

\* toDataURL may throw on a sheet with index < MaxThrowSheet
MaxThrowSheet == 2

\* recordings handed to the record page in one visit
MaxRecordings == 2

\* the seek that is never answered is one of the seeks 0..MaxStallSeek of the run
MaxStallSeek == 4

\* seconds the duration timer is followed beyond maxDuration
MaxOvertime == 3

\* recordings started in one VideoRecorder
MaxTakes == 2

---------------------------------------------------------------------------
(* Exact rational arithmetic on non-negative rationals *)

RECURSIVE GCD(_, _)
GCD(a, b) == IF b = 0 THEN a ELSE GCD(b, a % b)

Rat(n, d) == LET g == GCD(n, d) IN [n |-> n \div g, d |-> d \div g]

FromInt(k) == [n |-> k, d |-> 1]

Zero == FromInt(0)

\* the numerators of a and b over their least common denominator
Over(a, b) == LET g == GCD(a.d, b.d)
              IN  [x |-> a.n * (b.d \div g), y |-> b.n * (a.d \div g),
                   d |-> a.d * (b.d \div g)]

RatAdd(a, b) == LET c == Over(a, b) IN Rat(c.x + c.y, c.d)

RatMul(a, b) == LET x == Rat(a.n, b.d)
                    y == Rat(b.n, a.d)
                IN  [n |-> x.n * y.n, d |-> x.d * y.d]

RatDiv(a, b) == RatMul(a, [n |-> b.d, d |-> b.n])

RatLe(a, b) == LET c == Over(a, b) IN c.x <= c.y

RatLt(a, b) == LET c == Over(a, b) IN c.x < c.y

\* Math.ceil and Math.floor of a non-negative rational
Ceil(a) == (a.n + a.d - 1) \div a.d

Floor(a) == a.n \div a.d

Min(a, b) == IF a < b THEN a ELSE b

---------------------------------------------------------------------------
(* Inputs *)

ShortDurations == { Rat(n, 4) : n \in 1..MaxShortQuarters }

NearThreshold == { Rat(2240 + n, 10) : n \in 0..MaxNearTenths }

LongDurations == { FromInt(300), FromInt(600), FromInt(3600) }

\* durations the pipeline is run on
Durations == ShortDurations
             \cup { FromInt(224), FromInt(225), Rat(2251, 10) }
             \cup LongDurations

\* durations calculateSamplingInterval is applied to
PlanDurations == ShortDurations \cup NearThreshold \cup LongDurations
                 \cup { FromInt(25 * n) : n \in 1..MaxPlanSteps }

NeverFails == [mod |-> 1, rem |-> 1]

DecodePatterns == { [mod |-> m, rem |-> r] : m \in 1..MaxFailMod, r \in 0..(MaxFailMod - 1) }

FailPatterns == { q \in DecodePatterns : q.rem < q.mod } \cup { NeverFails }

NoThrow == -1

\* every seek is answered
NoStall == -1

\* the k-th seek of the run (k from 0) is answered with 'error'
SeekFails(k) == k % decode.mod = decode.rem

---------------------------------------------------------------------------
(* calculateSamplingInterval, contact-sheet.ts lines 11-23 *)

calculateSamplingInterval_swapped(videoDurationSeconds) ==
    LET idealInterval == Rat(1, 2)
        sheetDuration == RatMul(FromInt(FRAMES_PER_SHEET), idealInterval)
        sheetsNeeded  == RatDiv(videoDurationSeconds, sheetDuration)
        targetSheetDuration == RatDiv(videoDurationSeconds, FromInt(MAX_SHEETS))
    IN  IF RatLe(sheetsNeeded, FromInt(MAX_SHEETS))
        THEN idealInterval
        ELSE RatDiv(FromInt(FRAMES_PER_SHEET), targetSheetDuration)

calculateSamplingInterval_undivided(videoDurationSeconds) ==
    LET idealInterval == Rat(1, 2)
        sheetDuration == RatMul(FromInt(FRAMES_PER_SHEET), idealInterval)
        sheetsNeeded  == RatDiv(videoDurationSeconds, sheetDuration)
        targetSheetDuration == RatDiv(videoDurationSeconds, FromInt(MAX_SHEETS))
    IN  IF RatLe(sheetsNeeded, FromInt(MAX_SHEETS))
        THEN idealInterval
        ELSE targetSheetDuration

calculateSamplingInterval_ideal(videoDurationSeconds) == Rat(1, 2)

calculateSamplingInterval(videoDurationSeconds) ==
    LET idealInterval == Rat(1, 2)
        sheetDuration == RatMul(FromInt(FRAMES_PER_SHEET), idealInterval)
        sheetsNeeded  == RatDiv(videoDurationSeconds, sheetDuration)
        targetSheetDuration == RatDiv(videoDurationSeconds, FromInt(MAX_SHEETS))
    IN  IF RatLe(sheetsNeeded, FromInt(MAX_SHEETS))
        THEN idealInterval
        ELSE RatDiv(targetSheetDuration, FromInt(FRAMES_PER_SHEET))

---------------------------------------------------------------------------
(* extractContactSheets: the promise and the object URL, lines 151-191 *)

\* URL.revokeObjectURL(url)
revokeObjectURL(r) == [r EXCEPT !.revokes = @ + 1]

\* resolve(sheets): only the first resolve or reject decides the promise
resolve(r, value) ==
    [r EXCEPT !.settleCalls = @ + 1,
              !.outcome = IF r.outcome = "pending" THEN "resolved" ELSE @,
              !.result  = IF r.outcome = "pending" THEN value ELSE @]

\* reject(error)
reject(r) ==
    [r EXCEPT !.settleCalls = @ + 1,
              !.outcome = IF r.outcome = "pending" THEN "rejected" ELSE @]

onerror_noReject(r) == revokeObjectURL(r)

\* video.onerror, lines 187-190; the handler stays installed for the whole run
onerror(r) == reject(revokeObjectURL(r))

catchFatal_noRevoke(r) == [reject(r) EXCEPT !.pc = "Aborted"]

\* the catch block of onloadedmetadata, lines 181-184
catchFatal(r) == [reject(revokeObjectURL(r)) EXCEPT !.pc = "Aborted"]

\* const sheetDuration = interval * FRAMES_PER_SHEET, line 163
SheetDuration(interval) == RatMul(interval, FromInt(FRAMES_PER_SHEET))

TotalSheets_floor(d, sheetDuration) == Floor(RatDiv(d, sheetDuration))

TotalSheets_plusOne(d, sheetDuration) == Floor(RatDiv(d, sheetDuration)) + 1

\* const totalSheets = Math.ceil(duration / sheetDuration), line 164
TotalSheets(d, sheetDuration) == Ceil(RatDiv(d, sheetDuration))

LoopCond_offByOne(i, totalSheets) == i <= totalSheets /\ i <= MAX_SHEETS

\* the loop condition i < totalSheets && i < MAX_SHEETS, line 170
LoopCond(i, totalSheets) == i < totalSheets /\ i < MAX_SHEETS

StartTime_next(i, sheetDuration) == RatMul(FromInt(i + 1), sheetDuration)

\* const startTime = i * sheetDuration, line 171
StartTime(i, sheetDuration) == RatMul(FromInt(i), sheetDuration)

ProgressValue_index(i, totalSheets) == Rat(i, Min(totalSheets, MAX_SHEETS))

\* the argument of onProgress, (i + 1) / Math.min(totalSheets, MAX_SHEETS), line 176
ProgressValue(i, totalSheets) == Rat(i + 1, Min(totalSheets, MAX_SHEETS))

---------------------------------------------------------------------------
(* createContactSheet, lines 59-133, and extractFrame, lines 28-54 *)

\* const frameTime = startTime + (i * interval), line 83
FrameTime(startTime, slot, interval) == RatAdd(startTime, RatMul(FromInt(slot), interval))

PastEnd_strict(frameTime, videoDuration) == RatLt(videoDuration, frameTime)

\* if (frameTime >= video.duration) break, line 86
PastEnd(frameTime, videoDuration) == RatLe(videoDuration, frameTime)

AwaitsExtractFrame_forgotten == FALSE

\* createContactSheet awaits every extractFrame before its next slot, line 92
AwaitsExtractFrame == TRUE

\* extractFrame up to its suspension: both listeners are added and the seek is
\* issued by assigning video.currentTime, lines 50-52
extractFrame(r, time) ==
    [r EXCEPT !.listeners   = @ \cup { r.seeks },
              !.overlap     = IF Cardinality(r.listeners) > @
                              THEN Cardinality(r.listeners) ELSE @,
              !.currentTime = time,
              !.seeks       = @ + 1,
              !.pc          = "Seeking"]

drawCell_transposed(r) ==
    LET col == r.slot \div GRID_SIZE
        row == r.slot % GRID_SIZE
    IN  [r EXCEPT !.cells = @ \cup { [row |-> row, col |-> col, time |-> r.currentTime] }]

\* the sheet is drawn in grid cell (row, col) and labelled, lines 95-121
drawCell(r) ==
    LET col == r.slot % GRID_SIZE
        row == r.slot \div GRID_SIZE
    IN  [r EXCEPT !.cells = @ \cup { [row |-> row, col |-> col, time |-> r.currentTime] }]

sheetOf_covered(r) ==
    [timestamp       |-> r.startTime,
     duration        |-> RatMul(r.interval, FromInt(Len(r.frameTimestamps))),
     cells           |-> r.cells,
     frameTimestamps |-> r.frameTimestamps]

\* the object createContactSheet returns, lines 127-132
sheetOf(r) ==
    [timestamp       |-> r.startTime,
     duration        |-> RatMul(r.interval, FromInt(FRAMES_PER_SHEET)),
     cells           |-> r.cells,
     frameTimestamps |-> r.frameTimestamps]

\* onProgress?.(value), line 176: the call is logged with what had happened by then
onProgress(r, value) ==
    [r EXCEPT !.progress = Append(@, [value      |-> value,
                                      sheetsDone |-> Len(r.sheets),
                                      seeks      |-> r.seeks])]

RECURSIVE SheetLoop(_), FrameLoop(_)

\* the for loop of createContactSheet from the test of slot r.slot on (line 82),
\* then the rest of the sheet loop of extractContactSheets (lines 174-177)
FrameLoop(r) ==
    LET frameTime == FrameTime(r.startTime, r.slot, r.interval) IN
    IF r.slot < FRAMES_PER_SHEET /\ ~PastEnd(frameTime, duration)
    THEN LET pushed == [r EXCEPT !.frameTimestamps = Append(@, frameTime)]
             issued == extractFrame(pushed, frameTime)
         IN  IF AwaitsExtractFrame
             THEN issued
             ELSE FrameLoop([issued EXCEPT !.slot = @ + 1])
    ELSE IF encodeFailsAt = r.i
         THEN catchFatal(r)          \* sheetCanvas.toDataURL throws, line 130
         ELSE LET pushed == [r EXCEPT !.sheets = Append(@, sheetOf(r))]
              IN  SheetLoop([onProgress(pushed, ProgressValue(r.i, r.totalSheets))
                                EXCEPT !.i = @ + 1])

\* the for loop of extractContactSheets from its test of r.i on, lines 170-180
SheetLoop(r) ==
    IF LoopCond(r.i, r.totalSheets)
    THEN FrameLoop([r EXCEPT !.startTime = StartTime(r.i, r.sheetDuration),
                             !.slot = 0,
                             !.frameTimestamps = << >>,
                             !.cells = {}])
    ELSE [resolve(revokeObjectURL(r), r.sheets) EXCEPT !.pc = "Done"]

---------------------------------------------------------------------------
(* The run of extractContactSheets *)

\* the state once the promise executor has run, lines 151-157
NewRun ==
    [pc |-> "LoadingMetadata",
     interval |-> Zero, sheetDuration |-> Zero, totalSheets |-> 0,
     i |-> 0, sheets |-> << >>, progress |-> << >>,
     startTime |-> Zero, slot |-> 0, frameTimestamps |-> << >>, cells |-> {},
     currentTime |-> Zero, listeners |-> {}, seeks |-> 0, overlap |-> 0,
     frameErrors |-> 0,
     outcome |-> "pending", result |-> << >>, settleCalls |-> 0, revokes |-> 0]

NoRun == [NewRun EXCEPT !.pc = "Idle"]

\* no ProcessingView is mounted and none has been
NoView == [phase |-> "Unused"]

\* no second call
NoTwin == [decode |-> NeverFails, run |-> NoRun]

NoPlan == [d1 |-> Zero, d2 |-> Zero, r1 |-> Zero, r2 |-> Zero, applied |-> FALSE]

\* no VideoRecorder is mounted
NoRecorder == [phase |-> "Unused"]

\* the pending seek is the one the media layer never answers: neither 'seeked'
\* nor 'error' fires, and extractFrame (lines 34-53) has no timer of its own
Stalled == run.pc = "Seeking" /\ run.seeks - 1 = stallAt

Init ==
    /\ stallAt = NoStall
    /\ recorder = NoRecorder
    /\ duration \in Durations
    /\ decode \in FailPatterns
    /\ encodeFailsAt \in { NoThrow } \cup 0..(MaxThrowSheet - 1)
    /\ run = NewRun
    /\ plan = NoPlan
    /\ view = NoView
    /\ twin = NoTwin

\* video.onloadedmetadata, lines 159-185, run to its first await or to its end
onloadedmetadata(r) ==
    LET interval      == calculateSamplingInterval(duration)
        sheetDuration == SheetDuration(interval)
        totalSheets   == TotalSheets(duration, sheetDuration)
    IN  SheetLoop([r EXCEPT !.interval = interval,
                            !.sheetDuration = sheetDuration,
                            !.totalSheets = totalSheets,
                            !.i = 0,
                            !.sheets = << >>])

\* 'error' before the metadata has loaded: video.onerror, lines 187-190
onerrorLoading(r) == [onerror(r) EXCEPT !.pc = "MetadataFailed"]

catchFrame_dropsOffset(r) ==
    [r EXCEPT !.frameTimestamps = SubSeq(@, 1, Len(@) - 1)]

\* the catch of createContactSheet, lines 122-124: a warning is logged, nothing else
catchFrame(r) == r

\* 'seeked': onSeeked (lines 35-42) of the pending extractFrame, then
\* createContactSheet resumes after its await (lines 94-121) and goes on
onSeeked(r) ==
    LET heard == [r EXCEPT !.listeners = {}]
    IN  FrameLoop([drawCell(heard) EXCEPT !.slot = @ + 1])

\* 'error' while a seek is pending: video.onerror (lines 187-190), then onError
\* (lines 44-48) rejects extractFrame and the catch of createContactSheet
\* (lines 122-124) goes on with the next slot
onError(r) ==
    LET heard == [onerror(r) EXCEPT !.listeners = {}, !.frameErrors = @ + 1]
    IN  FrameLoop([catchFrame(heard) EXCEPT !.slot = @ + 1])

\* the video fires 'loadedmetadata'
LoadedMetadata ==
    /\ run.pc = "LoadingMetadata"
    /\ run' = onloadedmetadata(run)
    /\ UNCHANGED <<stallAt, recorder, duration, decode, encodeFailsAt, plan, view, twin>>

\* the video fires 'error' before its metadata has loaded
MetadataError ==
    /\ run.pc = "LoadingMetadata"
    /\ run' = onerrorLoading(run)
    /\ UNCHANGED <<stallAt, recorder, duration, decode, encodeFailsAt, plan, view, twin>>

\* the video fires 'seeked' for the pending seek
Seeked ==
    /\ run.pc = "Seeking"
    /\ ~Stalled
    /\ ~SeekFails(run.seeks - 1)
    /\ run' = onSeeked(run)
    /\ UNCHANGED <<stallAt, recorder, duration, decode, encodeFailsAt, plan, view, twin>>

\* the video fires 'error' while a seek is pending
SeekError ==
    /\ run.pc = "Seeking"
    /\ ~Stalled
    /\ SeekFails(run.seeks - 1)
    /\ run' = onError(run)
    /\ UNCHANGED <<stallAt, recorder, duration, decode, encodeFailsAt, plan, view, twin>>

Next == LoadedMetadata \/ MetadataError \/ Seeked \/ SeekError

Spec == Init /\ [][Next]_vars

\* durations of the runs in which a seek may stay unanswered
StallDurations == { Rat(1, 4), FromInt(1), FromInt(10) }

StallInit ==
    /\ duration \in StallDurations
    /\ decode \in FailPatterns
    /\ encodeFailsAt \in { NoThrow } \cup 0..(MaxThrowSheet - 1)
    /\ stallAt \in { NoStall } \cup 0..MaxStallSeek
    /\ recorder = NoRecorder
    /\ run = NewRun
    /\ plan = NoPlan
    /\ view = NoView
    /\ twin = NoTwin

\* the run when every event the media layer does fire is eventually delivered:
\* the browser's event loop runs every queued handler
StallSpec == StallInit /\ [][Next]_vars /\ WF_vars(Next)

---------------------------------------------------------------------------
(* calculateSamplingInterval applied to pairs of durations *)

PlanInit ==
    /\ stallAt = NoStall
    /\ recorder = NoRecorder
    /\ duration = Zero
    /\ decode = NeverFails
    /\ encodeFailsAt = NoThrow
    /\ run = NoRun
    /\ view = NoView
    /\ twin = NoTwin
    /\ \E a \in PlanDurations, b \in PlanDurations :
          plan = [NoPlan EXCEPT !.d1 = a, !.d2 = b]

PlanApply ==
    /\ ~plan.applied
    /\ plan' = [plan EXCEPT !.r1 = calculateSamplingInterval(plan.d1),
                            !.r2 = calculateSamplingInterval(plan.d2),
                            !.applied = TRUE]
    /\ UNCHANGED <<stallAt, recorder, duration, decode, encodeFailsAt, run, view, twin>>

PlanNext == PlanApply

PlanSpec == PlanInit /\ [][PlanNext]_vars

---------------------------------------------------------------------------
(* The record page and ProcessingView, processing-view.tsx lines 37-207.     *)
(* A promise continuation runs right after the handler that settled the      *)
(* promise, before any other event, so it is part of that event's action.    *)
(* A call of extractContactSheets goes on after its ProcessingView has been  *)
(* unmounted; once a later ProcessingView starts its own call, the earlier   *)
(* call can change nothing the page reads (its callbacks test the cancelled  *)
(* flag of their own effect), and run follows the later call.                *)

\* durations of the recordings that are processed
ViewDurations == { Rat(1, 4), FromInt(10), FromInt(20) }

StepNames == { "frames", "transcription", "analysis" }

\* useState of steps, lines 41-45
InitialSteps == [st \in StepNames |-> [status |-> "pending", progress |-> << >>, error |-> ""]]

\* the steps the effect's closure reads: those of the render that created it
ClosureSteps == InitialSteps

\* a ProcessingView as mounted, lines 41-50 and 60, before process() runs
FreshView(v) ==
    [phase |-> "Processing", interactive |-> v.interactive,
     recordings |-> v.recordings, retries |-> v.retries,
     pipelineCalls |-> v.pipelineCalls, transcribeRequests |-> v.transcribeRequests,
     cancelled |-> FALSE, sheetAtCancel |-> 0, framesPendingAtCancel |-> FALSE,
     errorAtCancel |-> "",
     steps |-> InitialSteps,
     pc |-> "Start", transcribe |-> "none",
     transcriptionPromise |-> "pending", framesPromise |-> "pending",
     framesValue |-> << >>,
     contactSheets |-> << >>, transcriptionSet |-> FALSE, analysisSet |-> FALSE,
     analyzeRequests |-> 0, overallError |-> "",
     sessionComplete |-> FALSE, timerPending |-> FALSE, onCompleteCalls |-> 0]

\* the record page with its VideoRecorder shown (videoBlob is null)
RecordingView(interactive) ==
    [FreshView([interactive |-> interactive, recordings |-> 0, retries |-> 0,
                pipelineCalls |-> 0, transcribeRequests |-> 0])
        EXCEPT !.phase = "Recording", !.pc = "None"]

\* updateStep, lines 52-57: the fields of update replace those of the step
updateStep(v, step, update) ==
    [v EXCEPT !.steps[step] =
        [f \in DOMAIN @ |-> IF f \in DOMAIN update THEN update[f] ELSE @[f]]]

catchProcess_ignoresCancelled(v, message) ==
    [v EXCEPT !.overallError = message, !.pc = "Caught"]

catchProcess_silent(v, message) == [v EXCEPT !.pc = "Caught"]

\* the catch of process, lines 182-199
catchProcess(v, message) ==
    IF ~v.cancelled
    THEN LET processing == { st \in StepNames : ClosureSteps[st].status = "processing" }
             shown == [v EXCEPT !.overallError = message, !.pc = "Caught"]
         IN  IF processing # {}
             THEN updateStep(shown, CHOOSE st \in processing : TRUE,
                             [status |-> "error", error |-> message])
             ELSE shown
    ELSE [v EXCEPT !.pc = "Caught"]

allFulfilled_any(fp, tp) == fp # "pending" \/ tp # "pending"

\* Promise.all([framesPromise, transcriptionPromise]) is fulfilled, line 128
allFulfilled(fp, tp) == fp # "pending" /\ tp # "pending"

\* process after its await of Promise.all, lines 130-154, up to its await of the
\* analysis response
afterAll(v) ==
    IF v.cancelled \/ v.framesPromise = "null" \/ v.transcriptionPromise = "null"
    THEN [v EXCEPT !.pc = "Returned"]
    ELSE [updateStep(v, "analysis", [status |-> "processing"])
            EXCEPT !.contactSheets = v.framesValue,
                   !.transcriptionSet = TRUE,
                   !.analyzeRequests = @ + 1,
                   !.pc = "AwaitAnalyze"]

\* Promise.all settles: it is rejected with the first rejection, and fulfilled
\* once both promises are, line 128
settleAll(v, message) ==
    IF v.pc # "AwaitAll" THEN v
    ELSE IF v.framesPromise = "rejected" \/ v.transcriptionPromise = "rejected"
         THEN catchProcess(v, message)
         ELSE IF allFulfilled(v.framesPromise, v.transcriptionPromise)
              THEN afterAll(v)
              ELSE v

\* process() up to its await of Promise.all, lines 62-128
startProcess(v) ==
    LET t  == updateStep(v, "transcription", [status |-> "processing"])
        tr == IF v.interactive
              THEN [updateStep(t, "transcription", [status |-> "complete"])
                        EXCEPT !.transcriptionPromise = "data"]
              ELSE [t EXCEPT !.transcribe = "pending",
                             !.transcribeRequests = @ + 1]
        fr == updateStep(tr, "frames", [status |-> "processing", progress |-> << Zero >>])
    IN  [fr EXCEPT !.pipelineCalls = @ + 1, !.pc = "AwaitAll"]

\* the onProgress callback ProcessingView passes, lines 116-120, for the calls
\* made while the run went from r to r2
progressSeen(v, r, r2) ==
    IF Len(r2.progress) > Len(r.progress) /\ ~v.cancelled
    THEN updateStep(v, "frames",
            [progress |-> << RatMul(r2.progress[Len(r2.progress)].value, FromInt(100)) >>])
    ELSE v

\* the message of the error extractContactSheets is rejected with
rejection(r) == IF r.pc = "Aborted" THEN "Encoding failed" ELSE "Failed to load video"

\* framesPromise after extractContactSheets has settled, lines 116-126, and what
\* follows from it in process
framesSettled(v, r, r2) ==
    IF r.outcome # "pending" \/ r2.outcome = "pending" THEN v
    ELSE IF r2.outcome = "rejected"
         THEN settleAll([v EXCEPT !.framesPromise = "rejected"], rejection(r2))
         ELSE IF v.cancelled
              THEN settleAll([v EXCEPT !.framesPromise = "null"], "")
              ELSE settleAll(
                     [updateStep(v, "frames",
                                 [status |-> "complete", progress |-> << FromInt(100) >>])
                        EXCEPT !.framesPromise = "sheets", !.framesValue = r2.result],
                     "")

\* what ProcessingView does while the run goes from r to r2 in one handler
pipelineSeen(v, r, r2) == framesSettled(progressSeen(v, r, r2), r, r2)

\* the cleanup of the effect, lines 204-206, noting where the run stood
cleanup(v, r) ==
    [v EXCEPT !.cancelled = TRUE,
              !.sheetAtCancel = r.i,
              !.framesPendingAtCancel = (r.outcome = "pending"),
              !.errorAtCancel = v.overallError]

ViewInit ==
    /\ stallAt = NoStall
    /\ recorder = NoRecorder
    /\ duration \in ViewDurations
    /\ decode \in FailPatterns
    /\ encodeFailsAt \in { NoThrow } \cup 0..(MaxThrowSheet - 1)
    /\ run = NoRun
    /\ plan = NoPlan
    /\ twin = NoTwin
    /\ \E b \in BOOLEAN : view = RecordingView(b)

\* a recording is handed to the page (handleRecordingComplete): ProcessingView
\* is mounted and its effect runs process()
SubmitRecording ==
    /\ view.phase = "Recording"
    /\ view.recordings < MaxRecordings
    /\ view' = startProcess(FreshView([view EXCEPT !.recordings = @ + 1]))
    /\ run' = NewRun
    /\ UNCHANGED <<stallAt, recorder, duration, decode, encodeFailsAt, plan, twin>>

ViewLoadedMetadata ==
    /\ run.pc = "LoadingMetadata"
    /\ run' = onloadedmetadata(run)
    /\ view' = pipelineSeen(view, run, run')
    /\ UNCHANGED <<stallAt, recorder, duration, decode, encodeFailsAt, plan, twin>>

ViewMetadataError ==
    /\ run.pc = "LoadingMetadata"
    /\ run' = onerrorLoading(run)
    /\ view' = pipelineSeen(view, run, run')
    /\ UNCHANGED <<stallAt, recorder, duration, decode, encodeFailsAt, plan, twin>>

ViewSeeked ==
    /\ run.pc = "Seeking"
    /\ ~SeekFails(run.seeks - 1)
    /\ run' = onSeeked(run)
    /\ view' = pipelineSeen(view, run, run')
    /\ UNCHANGED <<stallAt, recorder, duration, decode, encodeFailsAt, plan, twin>>

ViewSeekError ==
    /\ run.pc = "Seeking"
    /\ SeekFails(run.seeks - 1)
    /\ run' = onError(run)
    /\ view' = pipelineSeen(view, run, run')
    /\ UNCHANGED <<stallAt, recorder, duration, decode, encodeFailsAt, plan, twin>>

\* /api/transcribe answers with a transcription, lines 99-108
TranscribeOk ==
    /\ view.transcribe = "pending"
    /\ view' = LET got == [view EXCEPT !.transcribe = "done"]
               IN  IF view.cancelled
                   THEN settleAll([got EXCEPT !.transcriptionPromise = "null"], "")
                   ELSE settleAll(
                          [updateStep(got, "transcription", [status |-> "complete"])
                              EXCEPT !.transcriptionPromise = "data"], "")
    /\ UNCHANGED <<stallAt, recorder, duration, decode, encodeFailsAt, plan, twin, run>>

\* /api/transcribe fails, lines 94-101
TranscribeFails ==
    /\ view.transcribe = "pending"
    /\ view' = settleAll([view EXCEPT !.transcribe = "done",
                                      !.transcriptionPromise = "rejected"],
                         "Transcription failed")
    /\ UNCHANGED <<stallAt, recorder, duration, decode, encodeFailsAt, plan, twin, run>>

\* /api/analyze answers with an analysis, lines 160-180
AnalyzeOk ==
    /\ view.pc = "AwaitAnalyze"
    /\ view' = IF view.cancelled
               THEN [view EXCEPT !.pc = "Returned"]
               ELSE [updateStep(view, "analysis", [status |-> "complete"])
                        EXCEPT !.analysisSet = TRUE,
                               !.sessionComplete = TRUE,
                               !.timerPending = TRUE,
                               !.pc = "Finished"]
    /\ UNCHANGED <<stallAt, recorder, duration, decode, encodeFailsAt, plan, twin, run>>

\* /api/analyze fails, lines 138-158
AnalyzeFails ==
    /\ view.pc = "AwaitAnalyze"
    /\ view' = catchProcess(view, "Analysis failed")
    /\ UNCHANGED <<stallAt, recorder, duration, decode, encodeFailsAt, plan, twin, run>>

\* the 500 ms timer of lines 177-179 fires
TimerFires ==
    /\ view.timerPending
    /\ view' = [view EXCEPT !.timerPending = FALSE, !.onCompleteCalls = @ + 1]
    /\ UNCHANGED <<stallAt, recorder, duration, decode, encodeFailsAt, plan, twin, run>>

\* the user leaves the page while ProcessingView is mounted: it is unmounted
Leave ==
    /\ view.phase = "Processing"
    /\ view' = [cleanup(view, run) EXCEPT !.phase = "Left"]
    /\ UNCHANGED <<stallAt, recorder, duration, decode, encodeFailsAt, plan, twin, run>>

\* the user clicks Try Again, shown while overallError is set (lines 302-310):
\* onRetry clears videoBlob, ProcessingView is unmounted, VideoRecorder shown
Retry ==
    /\ view.phase = "Processing"
    /\ view.overallError # ""
    /\ view' = [cleanup(view, run) EXCEPT !.phase = "Recording", !.retries = @ + 1]
    /\ UNCHANGED <<stallAt, recorder, duration, decode, encodeFailsAt, plan, twin, run>>

ViewNext ==
    \/ SubmitRecording
    \/ ViewLoadedMetadata \/ ViewMetadataError \/ ViewSeeked \/ ViewSeekError
    \/ TranscribeOk \/ TranscribeFails
    \/ AnalyzeOk \/ AnalyzeFails
    \/ TimerFires
    \/ Leave \/ Retry

ViewSpec == ViewInit /\ [][ViewNext]_vars

---------------------------------------------------------------------------
(* Two calls of extractContactSheets on the same video, whose seeks are       *)
(* answered differently.  The control flow of a call does not depend on the  *)
(* answers, so the two calls are stepped together, event by event.           *)

\* durations the two calls are run on
TwinDurations == ShortDurations \cup { Rat(2251, 10) }

\* the pending seek of r is answered as the pattern q says
seekAnswered(r, q) ==
    IF (r.seeks - 1) % q.mod = q.rem THEN onError(r) ELSE onSeeked(r)

TwinInit ==
    /\ stallAt = NoStall
    /\ recorder = NoRecorder
    /\ duration \in TwinDurations
    /\ decode \in FailPatterns
    /\ encodeFailsAt = NoThrow
    /\ run = NewRun
    /\ plan = NoPlan
    /\ view = NoView
    /\ \E q \in FailPatterns : twin = [decode |-> q, run |-> NewRun]

\* both videos fire 'loadedmetadata'
TwinLoaded ==
    /\ run.pc = "LoadingMetadata"
    /\ twin.run.pc = "LoadingMetadata"
    /\ run' = onloadedmetadata(run)
    /\ twin' = [twin EXCEPT !.run = onloadedmetadata(twin.run)]
    /\ UNCHANGED <<stallAt, recorder, duration, decode, encodeFailsAt, plan, view>>

\* both videos answer their pending seek
TwinAnswered ==
    /\ run.pc = "Seeking"
    /\ twin.run.pc = "Seeking"
    /\ run' = seekAnswered(run, decode)
    /\ twin' = [twin EXCEPT !.run = seekAnswered(twin.run, twin.decode)]
    /\ UNCHANGED <<stallAt, recorder, duration, decode, encodeFailsAt, plan, view>>

TwinNext == TwinLoaded \/ TwinAnswered

TwinSpec == TwinInit /\ [][TwinNext]_vars

---------------------------------------------------------------------------
(* VideoRecorder, video-recorder.tsx lines 45-257.  elapsed counts the        *)
(* seconds the duration timer has fired since the recording was started.     *)

\* the VideoRecorder as mounted, lines 50-70
NewRecorder ==
    [phase |-> "Mounted", isInitialized |-> FALSE, isRecording |-> FALSE,
     duration |-> 0, video |-> "inactive", audio |-> "inactive",
     timer |-> FALSE, elapsed |-> 0, stopsPending |-> FALSE,
     recordedUrl |-> FALSE, takes |-> 0]

\* the isRecording that the stopRecording called by the duration timer reads.
\* startRecording is memoised on [maxDuration] alone (line 240), so it is the
\* function of the first render and closes over that render's stopRecording,
\* which was created while isRecording had its initial value false (line 62)
CapturedIsRecording == FALSE

\* stopRecording, lines 242-257, with the isRecording of its closure
stopRecording(rec, isRecording) ==
    IF isRecording
    THEN [rec EXCEPT !.video = "inactive", !.audio = "inactive",
                     !.stopsPending = (rec.video # "inactive" \/ rec.audio # "inactive"),
                     !.isRecording = FALSE,
                     !.timer = FALSE]
    ELSE rec

\* the updater passed to setDuration by the timer callback, lines 232-238
tick(rec) ==
    IF rec.duration >= maxDuration - 1
    THEN stopRecording(rec, CapturedIsRecording)
    ELSE [rec EXCEPT !.duration = @ + 1]

RecorderInit ==
    /\ duration = Zero
    /\ decode = NeverFails
    /\ encodeFailsAt = NoThrow
    /\ stallAt = NoStall
    /\ run = NoRun
    /\ plan = NoPlan
    /\ view = NoView
    /\ twin = NoTwin
    /\ recorder = NewRecorder

\* getUserMedia has answered: initCamera sets isInitialized, lines 74-100
CameraReady ==
    /\ ~recorder.isInitialized
    /\ recorder' = [recorder EXCEPT !.isInitialized = TRUE]
    /\ UNCHANGED <<stallAt, duration, decode, encodeFailsAt, run, plan, view, twin>>

\* a click on Start Recording (lines 362-371): startRecording, lines 123-240
StartRecording ==
    /\ recorder.isInitialized
    /\ ~recorder.isRecording
    /\ ~recorder.recordedUrl
    /\ ~recorder.stopsPending
    /\ recorder.takes < MaxTakes
    /\ recorder' = [recorder EXCEPT !.video = "recording", !.audio = "recording",
                                    !.isRecording = TRUE, !.duration = 0,
                                    !.timer = TRUE, !.elapsed = 0,
                                    !.takes = @ + 1]
    /\ UNCHANGED <<stallAt, duration, decode, encodeFailsAt, run, plan, view, twin>>

\* the one-second interval of lines 231-239 fires
Tick ==
    /\ recorder.timer
    /\ recorder.elapsed < maxDuration + MaxOvertime
    /\ recorder' = [tick(recorder) EXCEPT !.elapsed = recorder.elapsed + 1]
    /\ UNCHANGED <<stallAt, duration, decode, encodeFailsAt, run, plan, view, twin>>

\* a click on Stop Recording (lines 372-381): the stopRecording of the current
\* render, which reads the current isRecording
StopClick ==
    /\ recorder.isRecording
    /\ recorder' = stopRecording(recorder, recorder.isRecording)
    /\ UNCHANGED <<stallAt, duration, decode, encodeFailsAt, run, plan, view, twin>>

\* both recorders have fired 'stop': onBothStopped, lines 188-218
BothStopped ==
    /\ recorder.stopsPending
    /\ recorder' = [recorder EXCEPT !.stopsPending = FALSE, !.recordedUrl = TRUE]
    /\ UNCHANGED <<stallAt, duration, decode, encodeFailsAt, run, plan, view, twin>>

\* a click on Re-record (lines 386-393): resetRecording, lines 259-275
ResetRecording ==
    /\ recorder.recordedUrl
    /\ recorder' = [recorder EXCEPT !.recordedUrl = FALSE, !.duration = 0]
    /\ UNCHANGED <<stallAt, duration, decode, encodeFailsAt, run, plan, view, twin>>

RecorderNext ==
    \/ CameraReady \/ StartRecording \/ Tick
    \/ StopClick \/ BothStopped \/ ResetRecording

RecorderSpec == RecorderInit /\ [][RecorderNext]_vars

---------------------------------------------------------------------------
(* Properties *)

Range(q) == { q[k] : k \in 1..Len(q) }

\* the run got past the metadata load and planned its sampling
Planned == run.pc \in { "Seeking", "Done", "Aborted" }

\* the number of sheets the claims expect for the duration of this run
ExpectedSheets ==
    Min(Ceil(RatDiv(duration, RatMul(calculateSamplingInterval(duration), FromInt(9)))), 50)

RECURSIVE FramesIn(_, _)
\* the number of frame timestamps in the first k sheets of q
FramesIn(q, k) == IF k = 0 THEN 0 ELSE FramesIn(q, k - 1) + Len(q[k].frameTimestamps)

\* C1: whatever the duration and whichever seeks fail, the accumulated list of
\* sheets never holds more than 50 sheets, and neither does the list the promise
\* is resolved with.
C1_AtMostFiftySheets ==
    /\ Len(run.sheets) <= 50
    /\ run.outcome = "resolved" => Len(run.result) <= 50

C1_Witness ==
    /\ duration = FromInt(3600)
    /\ run.outcome = "resolved"
    /\ Len(run.result) = 50

\* C2: calculateSamplingInterval(d) is 0.5 when d <= 225, d = 225 included, and
\* (d / 50) / 9 when d > 225.
C2_IntervalMatchesPlanner ==
    plan.applied =>
        plan.r1 = IF RatLe(plan.d1, FromInt(225))
                  THEN Rat(1, 2)
                  ELSE RatDiv(RatDiv(plan.d1, FromInt(50)), FromInt(9))

C2_Witness ==
    /\ plan.applied
    /\ plan.d1 = Rat(2251, 10)
    /\ plan.r1 = Rat(2251, 4500)
    /\ plan.d2 = FromInt(225)
    /\ plan.r2 = Rat(1, 2)

\* C3: a run whose sheet loop ends without a fatal error has composed exactly
\* min(ceil(d / (interval * 9)), 50) sheets, and a promise that resolves resolves
\* with that many; a 3600 s video is sampled every 8 s, in sheets of 72 s, 50 of them.
C3_SheetCount ==
    /\ run.pc = "Done" => Len(run.sheets) = ExpectedSheets
    /\ run.outcome = "resolved" => Len(run.result) = ExpectedSheets
    /\ (Planned /\ duration = FromInt(3600)) =>
          /\ run.interval = FromInt(8)
          /\ run.sheetDuration = FromInt(72)
          /\ run.pc = "Done" => Len(run.sheets) = 50

C3_Witness ==
    /\ run.pc = "Done"
    /\ duration = FromInt(3600)
    /\ run.interval = FromInt(8)
    /\ run.sheetDuration = FromInt(72)
    /\ run.totalSheets = 50
    /\ Len(run.sheets) = 50

\* C4: calculateSamplingInterval is monotonically non-decreasing: d1 < d2 implies
\* calculateSamplingInterval(d1) <= calculateSamplingInterval(d2), across the
\* 225 s threshold too.
C4_IntervalMonotone ==
    (plan.applied /\ RatLt(plan.d1, plan.d2)) => RatLe(plan.r1, plan.r2)

C4_Witness ==
    /\ plan.applied
    /\ RatLt(plan.d1, FromInt(225))
    /\ RatLt(FromInt(225), plan.d2)
    /\ RatLt(plan.r1, plan.r2)

\* frameTimestamps of sheet s is strictly increasing and lies in the sheet's span
\* and in the video
TimestampsInRange(s) ==
    /\ \A k \in 1..(Len(s.frameTimestamps) - 1) :
          RatLt(s.frameTimestamps[k], s.frameTimestamps[k + 1])
    /\ \A k \in 1..Len(s.frameTimestamps) :
          /\ RatLe(s.timestamp, s.frameTimestamps[k])
          /\ RatLt(s.frameTimestamps[k], RatAdd(s.timestamp, s.duration))
          /\ RatLe(Zero, s.frameTimestamps[k])
          /\ RatLt(s.frameTimestamps[k], duration)

\* C5: in every sheet produced, frameTimestamps is strictly increasing and every
\* value t has timestamp <= t < timestamp + duration and 0 <= t < videoDuration.
C5_FrameTimestampsInRange ==
    \A s \in Range(run.sheets) \cup Range(run.result) : TimestampsInRange(s)

C5_Witness ==
    /\ run.pc = "Done"
    /\ duration = FromInt(10)
    /\ Len(run.sheets) = 3
    /\ Len(run.sheets[1].frameTimestamps) = 9
    /\ run.sheets[3].frameTimestamps = << FromInt(9), Rat(19, 2) >>

\* C6: every sheet appended to the result has between 1 and 9 frame timestamps;
\* no sheet without a valid candidate offset is emitted.
C6_SheetHasOneToNineFrames ==
    \A s \in Range(run.sheets) \cup Range(run.result) :
        /\ Len(s.frameTimestamps) >= 1
        /\ Len(s.frameTimestamps) <= 9

C6_Witness ==
    /\ run.pc = "Done"
    /\ duration = Rat(19, 4)
    /\ Len(run.sheets) = 2
    /\ Len(run.sheets[1].frameTimestamps) = 9
    /\ Len(run.sheets[2].frameTimestamps) = 1

\* C7: sheets are returned in the order composed; the k-th sheet (k from 0)
\* starts at k * sheetSpan with sheetSpan = interval * 9, so consecutive sheet
\* timestamps grow by exactly sheetSpan.
C7_SheetTimestamps ==
    LET span == RatMul(calculateSamplingInterval(duration), FromInt(9)) IN
    /\ \A k \in 1..Len(run.sheets) :
          run.sheets[k].timestamp = RatMul(FromInt(k - 1), span)
    /\ \A k \in 1..(Len(run.sheets) - 1) :
          /\ run.sheets[k + 1].timestamp = RatAdd(run.sheets[k].timestamp, span)
          /\ RatLt(run.sheets[k].timestamp, run.sheets[k + 1].timestamp)
    /\ run.outcome = "resolved" => run.result = run.sheets

C7_Witness ==
    /\ run.outcome = "resolved"
    /\ duration = Rat(2251, 10)
    /\ Len(run.result) = 50
    /\ run.result[50].timestamp = Rat(110299, 500)

\* C8: onProgress is called exactly once per sheet, after the sheet has been
\* appended and before any frame of the next sheet is sought, with (index+1)/n
\* where n is the number of sheets of the run; the values lie in [0, 1], never
\* decrease, and the last one of a completed run is 1.
C8_ProgressPerSheet ==
    /\ Len(run.progress) = Len(run.sheets)
    /\ \A k \in 1..Len(run.progress) :
          /\ run.progress[k].value = Rat(k, ExpectedSheets)
          /\ run.progress[k].sheetsDone = k
          /\ run.progress[k].seeks = FramesIn(run.sheets, k)
          /\ RatLe(Zero, run.progress[k].value)
          /\ RatLe(run.progress[k].value, FromInt(1))
    /\ \A k \in 1..(Len(run.progress) - 1) :
          RatLe(run.progress[k].value, run.progress[k + 1].value)
    /\ run.pc = "Done" =>
          /\ Len(run.progress) = ExpectedSheets
          /\ run.progress[Len(run.progress)].value = FromInt(1)

C8_Witness ==
    /\ run.pc = "Done"
    /\ duration = FromInt(10)
    /\ Len(run.progress) = 3
    /\ run.progress[2].value = Rat(2, 3)
    /\ run.progress[3].value = FromInt(1)

\* C9: frame extractions are serialized on the video element: no seek is issued
\* while the listeners of an earlier seek are still waiting for 'seeked' or
\* 'error', so at most one extraction is ever pending.
C9_SeeksSerialized ==
    /\ Cardinality(run.listeners) <= 1
    /\ run.overlap = 0

C9_Witness ==
    /\ run.pc = "Seeking"
    /\ run.i >= 1
    /\ run.slot >= 1
    /\ run.frameErrors >= 1
    /\ run.listeners = { run.seeks - 1 }

\* C10: an 'error' fired while a seek is pending never aborts the run: the slot
\* is skipped, the remaining slots and sheets are processed, and the promise is
\* resolved with the full sequence of sheets, not rejected.
C10_FrameErrorDoesNotReject ==
    (run.frameErrors > 0 /\ encodeFailsAt = NoThrow) =>
        /\ run.outcome # "rejected"
        /\ run.pc = "Done" => (run.outcome = "resolved" /\ run.result = run.sheets)

\* C11: when the video fires 'error' before its metadata has loaded, the promise
\* is rejected, no sheet is composed, no frame is sought, onProgress is never
\* called, and nothing more happens in the run: the load is not retried.
C11_MetadataFailureRejects ==
    run.pc = "MetadataFailed" =>
        /\ run.outcome = "rejected"
        /\ run.sheets = << >>
        /\ run.seeks = 0
        /\ run.progress = << >>
        /\ ~ENABLED (LoadedMetadata \/ MetadataError \/ Seeked \/ SeekError)

C11_Witness ==
    /\ run.pc = "MetadataFailed"
    /\ run.outcome = "rejected"
    /\ run.settleCalls = 1

\* C12: whenever the promise has settled, resolved or rejected (metadata failure,
\* an exception during sampling), the object URL has been revoked.
C12_RevokedWhenSettled ==
    run.outcome # "pending" => run.revokes >= 1

C12_Witness ==
    /\ run.pc = "Aborted"
    /\ run.outcome = "rejected"
    /\ run.frameErrors = 0
    /\ run.revokes = 1

\* what a finished run on a 10 s video looks like, up to the size of its last sheet
TenSecondRun(lastFrames) ==
    /\ run.interval = Rat(1, 2)
    /\ run.sheetDuration = Rat(9, 2)
    /\ Len(run.sheets) = 3
    /\ run.sheets[1].timestamp = Zero
    /\ run.sheets[2].timestamp = Rat(9, 2)
    /\ run.sheets[3].timestamp = FromInt(9)
    /\ Len(run.sheets[3].frameTimestamps) = lastFrames

\* C17 as stated: a 10 s video is sampled every 0.5 s in sheets of 4.5 s, giving
\* 3 sheets at 0, 4.5 and 9.0, the last with exactly 1 frame.
C17_LastSheetOneFrame ==
    (duration = FromInt(10) /\ run.pc = "Done") => TenSecondRun(1)

\* C17 as amended: a 10 s video is sampled every 0.5 s in sheets of 4.5 s, giving
\* 3 sheets at 0, 4.5 and 9.0, the last with exactly 2 frames, at 9.0 and 9.5.
C17_LastSheetTwoFrames ==
    (duration = FromInt(10) /\ run.pc = "Done") =>
        /\ TenSecondRun(2)
        /\ run.sheets[3].frameTimestamps = << FromInt(9), Rat(19, 2) >>

C17_Witness ==
    /\ duration = FromInt(10)
    /\ run.pc = "Done"
    /\ run.outcome = "resolved"
    /\ Len(run.result) = 3
    /\ Len(run.result[3].frameTimestamps) = 2

\* C19: for a 5-minute (300 s) video about 100 frames are sampled, grouped into
\* about 11 contact sheets, each covering 4.5 s of footage.
C19_FiveMinuteVideo ==
    (duration = FromInt(300) /\ run.pc = "Done") =>
        /\ run.seeks \in 90..110
        /\ Len(run.sheets) \in 10..12
        /\ \A s \in Range(run.sheets) : s.duration = Rat(9, 2)

\* C20: for every duration 0 < d <= maxDuration = 600 s the interval between
\* sampled frames lies between 0.5 s and 1.5 s inclusive.
C20_IntervalWithinReadmeRange ==
    (plan.applied /\ RatLe(plan.d1, FromInt(maxDuration))) =>
        /\ RatLe(Rat(1, 2), plan.r1)
        /\ RatLe(plan.r1, Rat(3, 2))

C20_Witness ==
    /\ plan.applied
    /\ plan.d1 = FromInt(maxDuration)
    /\ plan.r1 = Rat(4, 3)

\* the timestamp and frameTimestamps of every sheet of q, in order
SheetTimes(q) ==
    [k \in 1..Len(q) |-> [timestamp       |-> q[k].timestamp,
                          frameTimestamps |-> q[k].frameTimestamps]]

\* C18: two runs on the same video duration produce sheets with the same
\* timestamp and frameTimestamps sequences, whichever frame extractions succeed
\* or fail in either run, as long as neither run is aborted.
C18_SameTimesInBothRuns ==
    /\ SheetTimes(run.sheets) = SheetTimes(twin.run.sheets)
    /\ run.frameTimestamps = twin.run.frameTimestamps
    /\ (run.pc = "Done") = (twin.run.pc = "Done")

C18_Witness ==
    /\ run.pc = "Done"
    /\ twin.run.pc = "Done"
    /\ Len(run.sheets) >= 2
    /\ run.frameErrors > 0
    /\ twin.run.frameErrors = 0
    /\ run.sheets # twin.run.sheets

\* C13: cancellation is checked between sheets: once it has been signalled, the
\* sheet in progress is finished and after it no further sheet is composed and
\* no further frame is sought.
C13_NoSheetAfterCancel ==
    view.cancelled =>
        /\ Len(run.sheets) <= view.sheetAtCancel + 1
        /\ run.pc = "Seeking" => run.i = view.sheetAtCancel

\* C14: when cancellation is signalled while frame extraction is still going on,
\* the processing run stores no contact sheets, issues no analysis request, sets
\* no overall error and never calls onComplete.
C14_CancelDuringFramesIsSilent ==
    (view.cancelled /\ view.framesPendingAtCancel) =>
        /\ view.contactSheets = << >>
        /\ view.analyzeRequests = 0
        /\ view.overallError = view.errorAtCancel
        /\ ~view.timerPending
        /\ view.onCompleteCalls = 0

C14_Witness ==
    /\ duration = FromInt(20)
    /\ view.cancelled
    /\ view.framesPendingAtCancel
    /\ view.sheetAtCancel = 2
    /\ run.totalSheets = 5
    /\ run.outcome = "resolved"
    /\ Len(run.result) = 5
    /\ view.framesPromise = "null"
    /\ view.pc = "Returned"
    /\ view.overallError = ""

\* C15: the transcription request and the frame pipeline are started together,
\* neither waiting for the other to finish, and the analysis request is issued
\* only after both have completed successfully; if either fails there is no
\* analysis request.
C15_ConcurrentThenJoin ==
    /\ view.transcribeRequests = IF view.interactive THEN 0 ELSE view.pipelineCalls
    /\ view.analyzeRequests <= 1
    /\ view.analyzeRequests > 0 =>
          /\ run.outcome = "resolved"
          /\ view.framesPromise = "sheets"
          /\ view.transcriptionPromise = "data"
          /\ view.contactSheets = run.result
    /\ (run.outcome = "rejected" \/ view.transcriptionPromise = "rejected") =>
          view.analyzeRequests = 0

C15_Witness ==
    /\ ~view.interactive
    /\ view.transcribe = "done"
    /\ view.transcriptionPromise = "data"
    /\ run.outcome = "resolved"
    /\ Len(run.result) = 5
    /\ view.analyzeRequests = 1
    /\ view.pc = "AwaitAnalyze"

\* C16: when the frame pipeline rejects in a run that has not been cancelled, the
\* error and the retry prompt are shown (overallError is set); extractContactSheets
\* is not called again by the coordinator itself: every call after the first
\* follows an onRetry and a newly submitted recording.
C16_RejectionShowsRetry ==
    /\ (view.phase = "Processing" /\ run.outcome = "rejected") => view.overallError # ""
    /\ view.pipelineCalls = view.recordings
    /\ view.pipelineCalls <= view.retries + 1

C16_Witness ==
    /\ view.phase = "Processing"
    /\ run.outcome = "rejected"
    /\ view.overallError = "Failed to load video"
    /\ view.transcriptionPromise # "rejected"
    /\ view.pipelineCalls = 2
    /\ view.retries = 1


\* the candidate offsets startTime + k * interval, k = 0..8, of sheet s
Candidate(s, k) == RatAdd(s.timestamp, RatMul(FromInt(k), run.interval))

\* the number of leading candidates of sheet s that lie before the end of the video
RECURSIVE PrefixLen(_, _)
PrefixLen(s, k) ==
    IF k < 9 /\ RatLt(Candidate(s, k), duration) THEN PrefixLen(s, k + 1) ELSE k

\* C21: frameTimestamps of a sheet is exactly the longest prefix of the candidates
\* startTime + k * interval (k = 0..8) whose values are all < videoDuration; nothing
\* is padded, and an offset is recorded whether or not its extraction succeeded.
C21_LongestPrefixOfCandidates ==
    \A s \in Range(run.sheets) \cup Range(run.result) :
        /\ Len(s.frameTimestamps) = PrefixLen(s, 0)
        /\ \A k \in 1..Len(s.frameTimestamps) : s.frameTimestamps[k] = Candidate(s, k - 1)

C21_Witness ==
    /\ run.pc = "Done"
    /\ duration = FromInt(10)
    /\ decode = [mod |-> 2, rem |-> 0]
    /\ Len(run.sheets) = 3
    /\ Len(run.sheets[1].frameTimestamps) = 9
    /\ Cardinality(run.sheets[1].cells) = 4
    /\ run.sheets[3].frameTimestamps = << FromInt(9), Rat(19, 2) >>
    /\ Cardinality(run.sheets[3].cells) = 1

\* the cell of sheet number j (from 1) of q that candidate index k is drawn in,
\* if its seek, the FramesIn(q, j - 1) + k-th of the run, was answered with 'seeked'
CellsExpected(q, j) ==
    { [row |-> k \div 3, col |-> k % 3, time |-> q[j].frameTimestamps[k + 1]] :
        k \in { n \in 0..(Len(q[j].frameTimestamps) - 1) :
                    ~SeekFails(FramesIn(q, j - 1) + n) } }

\* C23: a successfully extracted frame with candidate index i is drawn in grid
\* cell (row floor(i/3), column i mod 3), in time order left-to-right and
\* top-to-bottom, at most one frame per cell; a cell whose extraction failed or
\* whose candidate was never attempted is not drawn and gets no label.
C23_GridLayout ==
    \A j \in 1..Len(run.sheets) :
        /\ run.sheets[j].cells = CellsExpected(run.sheets, j)
        /\ \A a, b \in run.sheets[j].cells :
              /\ (a.row = b.row /\ a.col = b.col) => a = b
              /\ RatLt(a.time, b.time) <=> (a.row * 3 + a.col < b.row * 3 + b.col)

C23_Witness ==
    /\ run.pc = "Done"
    /\ duration = FromInt(10)
    /\ decode = [mod |-> 3, rem |-> 1]
    /\ Cardinality(run.sheets[1].cells) = 6
    /\ [row |-> 2, col |-> 2, time |-> FromInt(4)] \in run.sheets[1].cells
    /\ run.sheets[3].cells = { [row |-> 0, col |-> 0, time |-> FromInt(9)] }

\* C24: every sheet's duration field equals interval * 9, the same value for all
\* sheets of a run, however many slots were attempted or filled, the final short
\* sheet included.
C24_NominalSheetDuration ==
    \A s \in Range(run.sheets) \cup Range(run.result) :
        s.duration = RatMul(calculateSamplingInterval(duration), FromInt(9))

C24_Witness ==
    /\ run.pc = "Done"
    /\ duration = Rat(19, 4)
    /\ Len(run.sheets) = 2
    /\ Len(run.sheets[2].frameTimestamps) = 1
    /\ run.sheets[2].cells = {}
    /\ run.sheets[2].duration = Rat(9, 2)

\* C30: the 50-sheet cap never truncates coverage: the sheets of a completed run
\* cover the whole video (the last sheet's timestamp + duration >= d), and
\* consecutive sheets leave no gap and no overlap.
C30_SheetsCoverVideo ==
    run.pc = "Done" =>
        /\ Len(run.sheets) >= 1
        /\ run.sheets[1].timestamp = Zero
        /\ \A k \in 1..(Len(run.sheets) - 1) :
              run.sheets[k + 1].timestamp =
                  RatAdd(run.sheets[k].timestamp, run.sheets[k].duration)
        /\ LET last == run.sheets[Len(run.sheets)]
           IN  RatLe(duration, RatAdd(last.timestamp, last.duration))

C30_Witness ==
    /\ run.pc = "Done"
    /\ duration = FromInt(300)
    /\ Len(run.sheets) = 50
    /\ run.sheets[50].timestamp = FromInt(294)
    /\ run.sheets[50].duration = FromInt(6)


\* the terminal states of the run: nothing is pending and no handler will run
Terminal == run.pc \in { "MetadataFailed", "Done", "Aborted" }

\* C22: once the promise returned by extractContactSheets has resolved or rejected,
\* the run is in a terminal state (MetadataFailed, Done or Aborted): no frame
\* extraction is pending or follows, no sheet is composed, onProgress is not
\* called, and the outcome of the promise has been decided exactly once.
C22_SettledMeansStopped ==
    run.outcome # "pending" =>
        /\ Terminal
        /\ run.listeners = {}
        /\ run.settleCalls = 1

\* C29: the object URL is never revoked while the sampling loop is still running:
\* once URL.revokeObjectURL(url) has been called the run starts no further seek,
\* and the URL is revoked at most once per run.
C29_RevokedOnlyAtEnd ==
    /\ run.revokes <= 1
    /\ run.revokes = 1 => (Terminal /\ run.pc # "Seeking" /\ run.listeners = {})


\* C26: when processing fails in a run that has not been cancelled, the step
\* that was in status 'processing' at the time of the failure is marked with
\* status 'error' and the error message, and overallError is set.
C26_FailedStepMarked ==
    (view.phase = "Processing" /\ view.pc = "Caught" /\ ~view.cancelled) =>
        /\ view.overallError # ""
        /\ \E st \in StepNames :
              /\ view.steps[st].status = "error"
              /\ view.steps[st].error = view.overallError

\* what a processing run shows or hands to the rest of the application
Visible(v) ==
    [steps |-> v.steps, contactSheets |-> v.contactSheets,
     transcriptionSet |-> v.transcriptionSet, analysisSet |-> v.analysisSet,
     sessionComplete |-> v.sessionComplete, overallError |-> v.overallError,
     analyzeRequests |-> v.analyzeRequests, onCompleteCalls |-> v.onCompleteCalls]

\* C28: once the cancelled flag of a processing run is set, at whatever point of
\* the run, that run performs no further externally visible action: no step or
\* progress update, no setContactSheets, setTranscription or setAnalysis, no
\* updateCurrentSession, no error display and no onComplete call.
C28_NothingVisibleAfterCancel ==
    [][(view.phase # "Unused" /\ view.cancelled /\ view'.cancelled)
          => Visible(view') = Visible(view)]_vars


\* the run waits for an event of the video element whose handler will go on
\* with it; a run issues at most 9 * 50 seeks, so a run that always gets its
\* event ends
AwaitsEvent == run.pc \in { "LoadingMetadata", "Seeking" } /\ ~Stalled

\* C25: the pipeline has no internal timeout: if the metadata load eventually
\* fires loadedmetadata or error and every seek eventually fires 'seeked' or
\* 'error', extractContactSheets eventually settles (a run whose promise is
\* pending is never stuck unless a seek is unanswered); if some seek never fires
\* either event, the promise never settles and no later sheet is started (at the
\* unanswered seek the promise is pending and nothing more can happen).
C25_NoTimeout ==
    /\ (run.outcome = "pending" /\ ~Stalled) => AwaitsEvent
    /\ run.seeks <= 9 * 50
    /\ Stalled => (run.outcome = "pending" /\ ~ENABLED Next)

\* the part of C25 that holds: an unanswered seek blocks the run for good, and
\* no timer of the pipeline ever ends the wait
StallBlocksRun == Stalled => ~ENABLED Next


\* C27: a recording started with VideoRecorder never runs longer than maxDuration
\* seconds: when the one-second duration timer reaches maxDuration - 1, both the
\* video and the audio recorder are stopped, isRecording becomes false and the
\* timer is cleared, without user action.
C27_StopsAtMaxDuration ==
    (recorder.phase = "Mounted" /\ recorder.elapsed >= maxDuration) =>
        /\ recorder.video = "inactive"
        /\ recorder.audio = "inactive"
        /\ ~recorder.isRecording
        /\ ~recorder.timer

=============================================================================
